---------------------------- MODULE Spec2Model ----------------------------
(***************************************************************************)
(* A model of ctrl4ai/automl.py: the preprocessing pipeline `preprocess`  *)
(* and the mixed-type correlation matrix `master_correlation`.            *)
(*                                                                         *)
(* A dataset is a sequence of columns (a DataFrame keeps its columns in   *)
(* order).  A column is a record                                          *)
(*     [name, level, numeric, vals]                                       *)
(* where name is the column's name in the input, level is 0 for a column  *)
(* of the input and v for the one-hot indicator of value v of that        *)
(* column, numeric says whether the values are numbers, and vals is the   *)
(* sequence of row values (Null for a missing value).                     *)
(*                                                                         *)
(* The modules preprocessing, helper and exceptions are imported by       *)
(* automl.py but are not part of the source at hand: their operations are *)
(* modelled from the specification's description of the collaborators.    *)
(***************************************************************************)
EXTENDS Integers, Sequences, FiniteSets, TLC

VARIABLES
    cfg,                 \* the call's parameters (never assigned by the code)
    pc,                  \* the statement the call is at
    error,               \* the exception that ended the call, or "none"
    stages,              \* the pipeline stages executed so far, in order
    dataset,
    categorical_cols,
    continuous_cols,
    categorical_dataset,
    continuous_dataset,
    col_labels,
    cleansed_dataset,
    mapped_dataset,
    final_dataset,       \* [bound, data]: a local is unbound until assigned
    data,                \* the frame master_correlation correlates
    column_list,
    column_combination,
    corr_df,
    corr_value           \* a local of master_correlation: unbound until assigned

vars == <<cfg, pc, error, stages, dataset, categorical_cols, continuous_cols,
          categorical_dataset, continuous_dataset, col_labels, cleansed_dataset,
          mapped_dataset, final_dataset, data, column_list,
          column_combination, corr_df, corr_value>>

---------------------------------------------------------------------------
(* Bounds of the model. *)

\* rows of an input dataset
NRows == 3

---------------------------------------------------------------------------
(* Program constants.  Thresholds are ratios, written in tenths. *)

\* categorical_threshold=0.3, the default of preprocess and master_correlation
DefaultCategoricalThreshold == 3

\* dropna_threshold=0.7, the default of preprocess
DefaultDropnaThreshold == 7

Null == -1

None == "None"

---------------------------------------------------------------------------
(* Sequences and columns. *)

Range(s) == {s[i] : i \in DOMAIN s}

Contains(s, x) == \E i \in DOMAIN s : s[i] = x

Rows == 1 .. NRows

\* the distinct non-null values of a column
Distinct(col) == Range(col.vals) \ {Null}

NonNullCount(col) == Cardinality({i \in DOMAIN col.vals : col.vals[i] # Null})

NullCount(col) == Cardinality({i \in DOMAIN col.vals : col.vals[i] = Null})

HasColumn(ds, n) == \E i \in DOMAIN ds : ds[i].name = n /\ ds[i].level = 0

Column(ds, n) == ds[CHOOSE i \in DOMAIN ds : ds[i].name = n /\ ds[i].level = 0]

\* dataset[names]: the named columns, in the order of names
SelectColumns(ds, names) == [i \in DOMAIN names |-> Column(ds, names[i])]

\* dataset[names] raises KeyError when a name is not a column
SelectFails(ds, names) == \E i \in DOMAIN names : ~HasColumn(ds, names[i])

ColumnKey(col) == <<col.name, col.level>>

Keys(ds) == [i \in DOMAIN ds |-> ColumnKey(ds[i])]

\* str.lower on the strings the model passes
Lower(s) ==
    CASE s = "Supervised" -> "supervised"
      [] s = "Unsupervised" -> "unsupervised"
      [] OTHER -> s

---------------------------------------------------------------------------
(* The collaborators: helper.* and preprocessing.* *)

\* helper.check_numeric_col
check_numeric_col(col) == col.numeric /\ NonNullCount(col) > 0

\* helper.check_categorical_col: non-numeric, or distinct ratio <= threshold
check_categorical_col(col, threshold) ==
    /\ NonNullCount(col) > 0
    /\ \/ ~col.numeric
       \/ 10 * Cardinality(Distinct(col)) <= threshold * NonNullCount(col)

single_valued_col(col) == Cardinality(Distinct(col)) = 1

\* preprocessing.drop_single_valued_cols
drop_single_valued_cols(ds) == SelectSeq(ds, LAMBDA col : ~single_valued_col(col))

\* preprocessing.drop_null_fields: drops the columns whose share of nulls
\* exceeds the threshold
drop_null_fields(ds, threshold) ==
    SelectSeq(ds, LAMBDA col : ~(10 * NullCount(col) > threshold * Len(col.vals)))

\* the central tendency that fills a column's nulls: its most frequent value
\* (the smallest one on a tie)
Occurrences(col, v) == Cardinality({i \in DOMAIN col.vals : col.vals[i] = v})

CentralTendency(col) ==
    CHOOSE v \in Distinct(col) :
        \A w \in Distinct(col) :
            \/ Occurrences(col, v) > Occurrences(col, w)
            \/ Occurrences(col, v) = Occurrences(col, w) /\ v <= w

impute_column(col) ==
    IF Distinct(col) = {} THEN col
    ELSE [col EXCEPT !.vals = [i \in DOMAIN col.vals |->
              IF col.vals[i] = Null THEN CentralTendency(col) ELSE col.vals[i]]]

\* preprocessing.impute_nulls, method central_tendency
impute_nulls(ds) == [i \in DOMAIN ds |-> impute_column(ds[i])]

\* the label map of a column: each distinct value to its rank, from 0
LabelMap(col) ==
    [v \in Distinct(col) |-> Cardinality({w \in Distinct(col) : w < v})]

\* preprocessing.label_encode on one column
label_encode(col) ==
    [col EXCEPT !.numeric = TRUE,
                !.vals = [i \in DOMAIN col.vals |->
                    IF col.vals[i] = Null THEN Null ELSE LabelMap(col)[col.vals[i]]]]

\* preprocessing.get_label_encoded_df: label-encodes the categorical columns
EncodedNames(ds, threshold) ==
    {ds[i].name : i \in {j \in DOMAIN ds : check_categorical_col(ds[j], threshold)}}

get_label_encoded_df(ds, threshold) ==
    [i \in DOMAIN ds |->
        IF check_categorical_col(ds[i], threshold) THEN label_encode(ds[i]) ELSE ds[i]]

get_label_encoded_labels(ds, threshold) ==
    [n \in EncodedNames(ds, threshold) |-> LabelMap(Column(ds, n))]

\* pd.concat([left, right], axis=1)
concat(left, right) == left \o right


---------------------------------------------------------------------------
(* master_correlation *)

\* a cell of the correlation frame, or the value of the local corr_value:
\* a statistic of two columns, the literal 1, NaN (a cell never written) or
\* unbound (a local never assigned)
Cell(stat, col1, col2) == [stat |-> stat, args |-> <<col1, col2>>]

One == [stat |-> "1", args |-> <<>>]

NaN == [stat |-> "NaN", args |-> <<>>]

Unbound == [stat |-> "unbound", args |-> <<>>]

\* the heuristic split of master_correlation: no override list is read
MasterCategoricalCols(ds, threshold) ==
    LET cat == SelectSeq(ds, LAMBDA col : check_categorical_col(col, threshold))
    IN  [i \in DOMAIN cat |-> cat[i].name]

\* MasterContinuousCols with `else` for `elif`: every column that is not
\* categorical is continuous
MasterContinuousColsElse(ds, threshold) ==
    LET con == SelectSeq(ds, LAMBDA col : ~check_categorical_col(col, threshold))
    IN  [i \in DOMAIN con |-> con[i].name]

MasterContinuousCols(ds, threshold) ==
    LET con == SelectSeq(ds, LAMBDA col :
                   /\ ~check_categorical_col(col, threshold)
                   /\ check_numeric_col(col))
    IN  [i \in DOMAIN con |-> con[i].name]

\* the frame master_correlation correlates
MasterData(ds, cats, conts) ==
    LET cat_ds == get_label_encoded_df(SelectColumns(ds, cats),
                                       DefaultCategoricalThreshold)
        con_ds == SelectColumns(ds, conts)
    IN  impute_nulls(drop_single_valued_cols(concat(cat_ds, con_ds)))

\* list(itertools.combinations(s, 2))
RECURSIVE Combinations(_)
Combinations(s) ==
    IF Len(s) < 2 THEN <<>>
    ELSE [i \in 1 .. Len(s) - 1 |-> <<s[1], s[i + 1]>>] \o Combinations(Tail(s))

\* pd.DataFrame(columns=column_list, index=column_list) with its diagonal set
InitialFrame(cols) ==
    [rc \in Range(cols) \X Range(cols) |-> IF rc[1] = rc[2] THEN One ELSE NaN]

\* SelectStatistic without its last branch: a categorical column paired with
\* a continuous one matches nothing
SelectStatisticNoMixedBranch(col1, col2, cats, conts) ==
    CASE Contains(conts, col1) /\ Contains(conts, col2) -> "pearson_corr"
      [] Contains(cats, col1) /\ Contains(cats, col2) -> "cramersv_corr"
      [] Contains(conts, col1) /\ Contains(cats, col2) -> "kendalltau_corr"
      [] OTHER -> "none"

\* the if/elif chain that picks the statistic of a pair; "none" when no
\* branch matches
SelectStatistic(col1, col2, cats, conts) ==
    CASE Contains(conts, col1) /\ Contains(conts, col2) -> "pearson_corr"
      [] Contains(cats, col1) /\ Contains(cats, col2) -> "cramersv_corr"
      [] Contains(conts, col1) /\ Contains(cats, col2) -> "kendalltau_corr"
      [] Contains(cats, col1) /\ Contains(conts, col2) -> "kendalltau_corr"
      [] OTHER -> "none"

\* WriteCells without its second assignment
WriteCellsOneSide(df, col1, col2, value) ==
    [df EXCEPT ![<<col1, col2>>] = value]

\* corr_df.loc[col1,col2]=corr_value; corr_df.loc[col2,col1]=corr_value
WriteCells(df, col1, col2, value) ==
    [df EXCEPT ![<<col1, col2>>] = value, ![<<col2, col1>>] = value]

PreprocessLocals ==
    <<stages, categorical_dataset, continuous_dataset, col_labels,
      cleansed_dataset, mapped_dataset, final_dataset>>

\* lines 196-222: classification, the frame to correlate, the empty matrix
\* with its diagonal
MasterPrepare ==
    /\ pc = "mc_start"
    /\ LET cats == MasterCategoricalCols(dataset, cfg.categorical_threshold)
           conts == MasterContinuousCols(dataset, cfg.categorical_threshold)
           frame == MasterData(dataset, cats, conts)
           cols == [i \in DOMAIN frame |-> frame[i].name]
       IN  /\ categorical_cols' = cats
           /\ continuous_cols' = conts
           /\ data' = frame
           /\ column_list' = cols
           /\ column_combination' = Combinations(cols)
           /\ corr_df' = InitialFrame(cols)
    /\ pc' = "mc_loop"
    /\ UNCHANGED <<cfg, error, dataset, corr_value, PreprocessLocals>>

\* lines 224-236: one iteration of the loop over the pairs
MasterCorrelatePair ==
    /\ pc = "mc_loop"
    /\ column_combination # <<>>
    /\ LET col1 == Head(column_combination)[1]
           col2 == Head(column_combination)[2]
           stat == SelectStatistic(col1, col2, categorical_cols, continuous_cols)
           value == IF stat = "none" THEN corr_value ELSE Cell(stat, col1, col2)
       IN  IF value = Unbound
           THEN /\ pc' = "raised"
                /\ error' = "UnboundLocalError"
                /\ UNCHANGED <<corr_value, corr_df, column_combination>>
           ELSE /\ corr_value' = value
                /\ corr_df' = WriteCells(corr_df, col1, col2, value)
                /\ column_combination' = Tail(column_combination)
                /\ UNCHANGED <<pc, error>>
    /\ UNCHANGED <<cfg, dataset, categorical_cols, continuous_cols, data,
                   column_list, PreprocessLocals>>

\* line 237
MasterReturn ==
    /\ pc = "mc_loop"
    /\ column_combination = <<>>
    /\ pc' = "mc_returned"
    /\ UNCHANGED <<cfg, error, dataset, categorical_cols, continuous_cols,
                   data, column_list, column_combination, corr_df,
                   corr_value, PreprocessLocals>>

MasterNext == MasterPrepare \/ MasterCorrelatePair \/ MasterReturn

---------------------------------------------------------------------------
(* preprocess: the collaborators only it calls *)

\* preprocessing.derive_from_datetime: derives features from the datetime
\* columns and leaves the others as they are; the inputs of the model hold
\* numeric and text columns only
derive_from_datetime(ds) == ds

\* the one-hot indicators of a column: one 0/1 column per distinct value
Indicators(col) ==
    LET n == Cardinality(Distinct(col))
        value(k) == CHOOSE v \in Distinct(col) :
                        Cardinality({w \in Distinct(col) : w < v}) = k - 1
    IN  [k \in 1 .. n |->
            [name |-> col.name, level |-> value(k), numeric |-> TRUE,
             vals |-> [i \in DOMAIN col.vals |->
                          IF col.vals[i] = value(k) THEN 1 ELSE 0]]]

\* preprocessing.get_ohe_df: replaces each categorical column that is not to
\* be ignored by its indicators
RECURSIVE get_ohe_df(_, _, _)
get_ohe_df(ds, ignore_cols, threshold) ==
    IF ds = <<>> THEN <<>>
    ELSE LET col == Head(ds)
             rest == get_ohe_df(Tail(ds), ignore_cols, threshold)
         IN  IF check_categorical_col(col, threshold) /\ ~Contains(ignore_cols, col.name)
             THEN Indicators(col) \o rest
             ELSE <<col>> \o rest

\* the rows `keep` of a dataset
KeepRows(ds, keep) ==
    [c \in DOMAIN ds |->
        [ds[c] EXCEPT !.vals = SelectSeq(
            [i \in DOMAIN ds[c].vals |-> <<i, ds[c].vals[i]>>],
            LAMBDA p : p[1] \in keep)]]

DropIndex(ds) ==
    [c \in DOMAIN ds |->
        [ds[c] EXCEPT !.vals = [i \in DOMAIN ds[c].vals |-> ds[c].vals[i][2]]]]

RowsOf(ds) == IF ds = <<>> THEN {} ELSE DOMAIN ds[1].vals

\* preprocessing.auto_remove_outliers: the datasets it may return.  It
\* deletes the rows with an outlier in a continuous column that is not
\* ignored; which rows those are is left open, but they are a minority.
auto_remove_outliers(ds, ignore_cols, threshold) ==
    LET continuous ==
            \E c \in DOMAIN ds :
                /\ ~Contains(ignore_cols, ds[c].name)
                /\ ~check_categorical_col(ds[c], threshold)
                /\ check_numeric_col(ds[c])
        outliers == IF continuous
                    THEN {r \in SUBSET RowsOf(ds) :
                             2 * Cardinality(r) < Cardinality(RowsOf(ds))}
                    ELSE {{}}
    IN  {DropIndex(KeepRows(ds, RowsOf(ds) \ r)) : r \in outliers}

\* preprocessing.get_correlated_features: the feature lists it may return.
\* The cutoff is the collaborator's policy: any set of the columns other
\* than the target, in the order of the frame.
get_correlated_features(ds, target_variable) ==
    LET features == SelectSeq(ds, LAMBDA col : col.name # target_variable)
    IN  {SelectSeq(features, LAMBDA col : ColumnKey(col) \in chosen) :
            chosen \in SUBSET Range(Keys(features))}

---------------------------------------------------------------------------
(* preprocess *)

MasterLocals == <<data, column_list, column_combination, corr_df, corr_value>>

Supervised == Lower(cfg.learning_type) = "supervised"

\* StageAfter with the removal of outliers moved behind the feature selection
StageAfterSelectionFirst(stage) ==
    CASE stage = "validate" -> "reset_index"
      [] stage = "reset_index" -> "derive_from_datetime"
      [] stage = "derive_from_datetime" -> "drop_null_fields"
      [] stage = "drop_null_fields" -> "drop_single_valued_cols"
      [] stage = "drop_single_valued_cols" -> "classify"
      [] stage = "classify" -> "impute_categorical"
      [] stage = "impute_categorical" -> "encode"
      [] stage = "encode" -> "impute_continuous"
      [] stage = "impute_continuous" -> "log_transform"
      [] stage = "log_transform" -> "merge"
      [] stage = "merge" -> IF Supervised THEN "target" ELSE "outliers"
      [] stage = "target" -> "feature_selection"
      [] stage = "feature_selection" -> "outliers"
      [] stage = "outliers" -> "return"
      [] stage = "return" -> "returned"

\* the order of the statements of preprocess (lines 70-153): the statement
\* control reaches after `stage` when `stage` raises nothing
StageAfter(stage) ==
    CASE stage = "validate" -> "reset_index"
      [] stage = "reset_index" -> "derive_from_datetime"
      [] stage = "derive_from_datetime" -> "drop_null_fields"
      [] stage = "drop_null_fields" -> "drop_single_valued_cols"
      [] stage = "drop_single_valued_cols" -> "classify"
      [] stage = "classify" -> "impute_categorical"
      [] stage = "impute_categorical" -> "encode"
      [] stage = "encode" -> "impute_continuous"
      [] stage = "impute_continuous" -> "log_transform"
      [] stage = "log_transform" -> "merge"
      [] stage = "merge" -> IF Supervised THEN "target" ELSE "outliers"
      [] stage = "target" -> "outliers"
      [] stage = "outliers" -> IF Supervised THEN "feature_selection" ELSE "return"
      [] stage = "feature_selection" -> "return"
      [] stage = "return" -> "returned"

\* list.append(x) unless x is in the list, for each x of extra in turn
RECURSIVE AppendMissing(_, _)
AppendMissing(list, extra) ==
    IF extra = <<>> THEN list
    ELSE AppendMissing(IF Contains(list, Head(extra)) THEN list
                       ELSE Append(list, Head(extra)),
                       Tail(extra))

\* lines 85-97: the loop over the columns, the target left out when supervised
IsFeature(col) == ~(Supervised /\ col.name = cfg.target_variable)

\* HeuristicCategorical without the test of define_continuous_cols
HeuristicCategoricalUnpinned(col) ==
    check_categorical_col(col, cfg.categorical_threshold)

HeuristicCategorical(col) ==
    /\ check_categorical_col(col, cfg.categorical_threshold)
    /\ ~Contains(cfg.define_continuous_cols, col.name)

HeuristicContinuous(col) ==
    /\ ~HeuristicCategorical(col)
    /\ check_numeric_col(col)
    /\ ~Contains(cfg.define_categorical_cols, col.name)

Names(ds) == [i \in DOMAIN ds |-> ds[i].name]

\* lines 83-100: categorical_cols
ClassifyCategorical(ds) ==
    AppendMissing(
        Names(SelectSeq(ds, LAMBDA col : IsFeature(col) /\ HeuristicCategorical(col))),
        cfg.define_categorical_cols)

\* lines 84-103: continuous_cols
ClassifyContinuous(ds) ==
    AppendMissing(
        Names(SelectSeq(ds, LAMBDA col : IsFeature(col) /\ HeuristicContinuous(col))),
        cfg.define_continuous_cols)

\* Validate without its fourth check, of target_type
ValidateNoTargetType ==
    /\ pc = "validate"
    /\ col_labels' = <<>>
    /\ IF \/ Lower(cfg.learning_type) \notin {"supervised", "unsupervised"}
          \/ Lower(cfg.tranform_categorical) \notin {"label_encoding", "one_hot_encoding"}
          \/ Lower(cfg.learning_type) = "supervised" /\ cfg.target_variable = None
       THEN pc' = "raised" /\ error' = "ParameterError"
       ELSE pc' = StageAfter("validate") /\ error' = error
    /\ UNCHANGED <<cfg, stages, dataset, categorical_cols, continuous_cols,
                   categorical_dataset, continuous_dataset, cleansed_dataset,
                   mapped_dataset, final_dataset, MasterLocals>>

\* lines 56-68: col_labels and the four checks of the parameters
Validate ==
    /\ pc = "validate"
    /\ col_labels' = <<>>
    /\ IF \/ Lower(cfg.learning_type) \notin {"supervised", "unsupervised"}
          \/ Lower(cfg.tranform_categorical) \notin {"label_encoding", "one_hot_encoding"}
          \/ Lower(cfg.learning_type) = "supervised" /\ cfg.target_variable = None
          \/ Lower(cfg.learning_type) = "supervised" /\ cfg.target_type = None
       THEN pc' = "raised" /\ error' = "ParameterError"
       ELSE pc' = StageAfter("validate") /\ error' = error
    /\ UNCHANGED <<cfg, stages, dataset, categorical_cols, continuous_cols,
                   categorical_dataset, continuous_dataset, cleansed_dataset,
                   mapped_dataset, final_dataset, MasterLocals>>

\* line 71: the rows are renumbered from 0; the model knows a row by its
\* position, which reset_index keeps
ResetIndex ==
    /\ pc = "reset_index"
    /\ stages' = Append(stages, "reset_index")
    /\ pc' = StageAfter("reset_index")
    /\ UNCHANGED <<cfg, error, dataset, categorical_cols, continuous_cols,
                   categorical_dataset, continuous_dataset, col_labels,
                   cleansed_dataset, mapped_dataset, final_dataset, MasterLocals>>

\* lines 72-73
DeriveFromDatetime ==
    /\ pc = "derive_from_datetime"
    /\ IF cfg.derive_from_datetime
       THEN /\ dataset' = derive_from_datetime(dataset)
            /\ stages' = Append(stages, "derive_from_datetime")
       ELSE UNCHANGED <<dataset, stages>>
    /\ pc' = StageAfter("derive_from_datetime")
    /\ UNCHANGED <<cfg, error, categorical_cols, continuous_cols,
                   categorical_dataset, continuous_dataset, col_labels,
                   cleansed_dataset, mapped_dataset, final_dataset, MasterLocals>>

\* lines 76-77
DropNullFields ==
    /\ pc = "drop_null_fields"
    /\ IF cfg.drop_null_dominated
       THEN /\ dataset' = drop_null_fields(dataset, DefaultDropnaThreshold)
            /\ stages' = Append(stages, "drop_null_fields")
       ELSE UNCHANGED <<dataset, stages>>
    /\ pc' = StageAfter("drop_null_fields")
    /\ UNCHANGED <<cfg, error, categorical_cols, continuous_cols,
                   categorical_dataset, continuous_dataset, col_labels,
                   cleansed_dataset, mapped_dataset, final_dataset, MasterLocals>>

\* line 80
DropSingleValuedCols ==
    /\ pc = "drop_single_valued_cols"
    /\ dataset' = drop_single_valued_cols(dataset)
    /\ stages' = Append(stages, "drop_single_valued_cols")
    /\ pc' = StageAfter("drop_single_valued_cols")
    /\ UNCHANGED <<cfg, error, categorical_cols, continuous_cols,
                   categorical_dataset, continuous_dataset, col_labels,
                   cleansed_dataset, mapped_dataset, final_dataset, MasterLocals>>

\* lines 83-107: the two role lists, then the two frames; dataset[names]
\* raises KeyError when a listed name is not a column
ClassifyColumns ==
    /\ pc = "classify"
    /\ categorical_cols' = ClassifyCategorical(dataset)
    /\ continuous_cols' = ClassifyContinuous(dataset)
    /\ stages' = Append(stages, "classify")
    /\ IF SelectFails(dataset, categorical_cols') \/ SelectFails(dataset, continuous_cols')
       THEN /\ pc' = "raised"
            /\ error' = "KeyError"
            /\ UNCHANGED <<categorical_dataset, continuous_dataset>>
       ELSE /\ categorical_dataset' = SelectColumns(dataset, categorical_cols')
            /\ continuous_dataset' = SelectColumns(dataset, continuous_cols')
            /\ pc' = StageAfter("classify")
            /\ error' = error
    /\ UNCHANGED <<cfg, dataset, col_labels, cleansed_dataset, mapped_dataset,
                   final_dataset, MasterLocals>>

\* line 110
ImputeCategorical ==
    /\ pc = "impute_categorical"
    /\ categorical_dataset' = impute_nulls(categorical_dataset)
    /\ stages' = Append(stages, "impute_categorical")
    /\ pc' = StageAfter("impute_categorical")
    /\ UNCHANGED <<cfg, error, dataset, categorical_cols, continuous_cols,
                   continuous_dataset, col_labels, cleansed_dataset,
                   mapped_dataset, final_dataset, MasterLocals>>

\* lines 111-120; ohe_ignore_cols is [], so the loop of lines 115-120 has no
\* iteration
EncodeCategorical ==
    /\ pc = "encode"
    /\ IF Lower(cfg.tranform_categorical) = "label_encoding"
       THEN /\ col_labels' = get_label_encoded_labels(categorical_dataset,
                                                      cfg.categorical_threshold)
            /\ categorical_dataset' = get_label_encoded_df(categorical_dataset,
                                                           cfg.categorical_threshold)
       ELSE /\ categorical_dataset' = get_ohe_df(categorical_dataset, <<>>,
                                                 cfg.categorical_threshold)
            /\ UNCHANGED col_labels
    /\ stages' = Append(stages, "encode")
    /\ pc' = StageAfter("encode")
    /\ UNCHANGED <<cfg, error, dataset, categorical_cols, continuous_cols,
                   continuous_dataset, cleansed_dataset, mapped_dataset,
                   final_dataset, MasterLocals>>

\* line 123
ImputeContinuous ==
    /\ pc = "impute_continuous"
    /\ continuous_dataset' = impute_nulls(continuous_dataset)
    /\ stages' = Append(stages, "impute_continuous")
    /\ pc' = StageAfter("impute_continuous")
    /\ UNCHANGED <<cfg, error, dataset, categorical_cols, continuous_cols,
                   categorical_dataset, col_labels, cleansed_dataset,
                   mapped_dataset, final_dataset, MasterLocals>>

\* lines 126-127: the call passes method and categorical_threshold but no
\* dataset, the collaborator's first parameter: Python raises TypeError
LogTransform ==
    /\ pc = "log_transform"
    /\ IF cfg.log_transform # None
       THEN /\ stages' = Append(stages, "log_transform")
            /\ pc' = "raised"
            /\ error' = "TypeError"
       ELSE /\ pc' = StageAfter("log_transform")
            /\ UNCHANGED <<stages, error>>
    /\ UNCHANGED <<cfg, dataset, categorical_cols, continuous_cols,
                   categorical_dataset, continuous_dataset, col_labels,
                   cleansed_dataset, mapped_dataset, final_dataset, MasterLocals>>

\* line 130
Merge ==
    /\ pc = "merge"
    /\ cleansed_dataset' = concat(categorical_dataset, continuous_dataset)
    /\ stages' = Append(stages, "merge")
    /\ pc' = StageAfter("merge")
    /\ UNCHANGED <<cfg, error, dataset, categorical_cols, continuous_cols,
                   categorical_dataset, continuous_dataset, col_labels,
                   mapped_dataset, final_dataset, MasterLocals>>

\* lines 132-137: dataset[target_variable] raises KeyError when an earlier
\* stage dropped the target column
AttachTarget ==
    /\ pc = "target"
    /\ stages' = Append(stages, "target")
    /\ IF ~HasColumn(dataset, cfg.target_variable)
       THEN /\ pc' = "raised"
            /\ error' = "KeyError"
            /\ UNCHANGED <<col_labels, mapped_dataset>>
       ELSE LET target_df == Column(dataset, cfg.target_variable)
            IN  /\ IF Lower(cfg.target_type) = "categorical"
                   THEN /\ col_labels' = (cfg.target_variable :> LabelMap(target_df))
                                             @@ col_labels
                        /\ mapped_dataset' = concat(cleansed_dataset,
                                                    <<label_encode(target_df)>>)
                   ELSE /\ mapped_dataset' = concat(cleansed_dataset, <<target_df>>)
                        /\ UNCHANGED col_labels
                /\ pc' = StageAfter("target")
                /\ error' = error
    /\ UNCHANGED <<cfg, dataset, categorical_cols, continuous_cols,
                   categorical_dataset, continuous_dataset, cleansed_dataset,
                   final_dataset, MasterLocals>>

\* lines 140-141
SupervisedRemoveOutliers ==
    /\ pc = "outliers"
    /\ Supervised
    /\ IF cfg.remove_outliers
       THEN /\ mapped_dataset' \in auto_remove_outliers(mapped_dataset,
                   <<cfg.target_variable>>, cfg.categorical_threshold)
            /\ stages' = Append(stages, "remove_outliers")
       ELSE UNCHANGED <<mapped_dataset, stages>>
    /\ pc' = StageAfter("outliers")
    /\ UNCHANGED <<cfg, error, dataset, categorical_cols, continuous_cols,
                   categorical_dataset, continuous_dataset, col_labels,
                   cleansed_dataset, final_dataset, MasterLocals>>

\* lines 147-152
UnsupervisedRemoveOutliers ==
    /\ pc = "outliers"
    /\ Lower(cfg.learning_type) = "unsupervised"
    /\ IF cfg.remove_outliers
       THEN /\ cleansed_dataset' \in auto_remove_outliers(cleansed_dataset,
                   <<>>, cfg.categorical_threshold)
            /\ stages' = Append(stages, "remove_outliers")
       ELSE UNCHANGED <<cleansed_dataset, stages>>
    /\ final_dataset' = [bound |-> TRUE, data |-> cleansed_dataset']
    /\ pc' = StageAfter("outliers")
    /\ UNCHANGED <<cfg, error, dataset, categorical_cols, continuous_cols,
                   categorical_dataset, continuous_dataset, col_labels,
                   mapped_dataset, MasterLocals>>

\* lines 144-146
FeatureSelection ==
    /\ pc = "feature_selection"
    /\ Supervised
    /\ IF cfg.feature_selection
       THEN /\ \E correlated_features \in
                     get_correlated_features(mapped_dataset, cfg.target_variable) :
                   final_dataset' =
                       [bound |-> TRUE,
                        data |-> concat(correlated_features,
                                        <<Column(mapped_dataset, cfg.target_variable)>>)]
            /\ stages' = Append(stages, "feature_selection")
       ELSE UNCHANGED <<final_dataset, stages>>
    /\ pc' = StageAfter("feature_selection")
    /\ UNCHANGED <<cfg, error, dataset, categorical_cols, continuous_cols,
                   categorical_dataset, continuous_dataset, col_labels,
                   cleansed_dataset, mapped_dataset, MasterLocals>>

\* line 153: reading a local that was never assigned raises UnboundLocalError
Return ==
    /\ pc = "return"
    /\ IF final_dataset.bound
       THEN /\ pc' = StageAfter("return")
            /\ stages' = Append(stages, "final_dataset")
            /\ error' = error
       ELSE /\ pc' = "raised"
            /\ error' = "UnboundLocalError"
            /\ UNCHANGED stages
    /\ UNCHANGED <<cfg, dataset, categorical_cols, continuous_cols,
                   categorical_dataset, continuous_dataset, col_labels,
                   cleansed_dataset, mapped_dataset, final_dataset, MasterLocals>>

Next ==
    \/ Validate
    \/ ResetIndex
    \/ DeriveFromDatetime
    \/ DropNullFields
    \/ DropSingleValuedCols
    \/ ClassifyColumns
    \/ ImputeCategorical
    \/ EncodeCategorical
    \/ ImputeContinuous
    \/ LogTransform
    \/ Merge
    \/ AttachTarget
    \/ SupervisedRemoveOutliers
    \/ UnsupervisedRemoveOutliers
    \/ FeatureSelection
    \/ Return

---------------------------------------------------------------------------
(* The inputs. *)

\* The model reads a column only through which of its values are equal and
\* which are missing, so the columns are taken up to renaming of their values
\* and with their rows in order: the values never decrease, the k-th new
\* value is k, and the missing values come last.
Canonical(v) ==
    \A i \in DOMAIN v :
        \/ v[i] = Null /\ \A j \in DOMAIN v : j > i => v[j] = Null
        \/ /\ v[i] # Null
           /\ i = 1 => v[i] = 1
           /\ i > 1 => v[i] \in {v[i - 1], v[i - 1] + 1}

ColumnValues == {v \in [Rows -> {Null} \cup Rows] : Canonical(v)}

Columns(n) ==
    {[name |-> n, level |-> 0, numeric |-> b, vals |-> v] :
        b \in BOOLEAN, v \in ColumnValues}

\* the parameters of a call, at their defaults
DefaultCfg ==
    [learning_type |-> "unsupervised",
     target_variable |-> None,
     target_type |-> None,
     tranform_categorical |-> "label_encoding",
     categorical_threshold |-> DefaultCategoricalThreshold,
     remove_outliers |-> FALSE,
     log_transform |-> None,
     drop_null_dominated |-> TRUE,
     derive_from_datetime |-> TRUE,
     feature_selection |-> TRUE,
     define_continuous_cols |-> <<>>,
     define_categorical_cols |-> <<>>]

\* the categorical_threshold values a call is given: the default, and one
\* that a numeric column of NRows rows can meet
Thresholds == {DefaultCategoricalThreshold, 7}

MasterDatasets ==
    {<<>>}
    \cup {<<a>> : a \in Columns("a")}
    \cup {<<a, b>> : a \in Columns("a"), b \in Columns("b")}
    \cup {<<a, b, c>> : a \in Columns("a"), b \in Columns("b"), c \in Columns("c")}

\* the override lists a call of master_correlation is given
MasterOverrides == {<<(<<>>), (<<>>)>>, <<(<<"a">>), (<<"b">>)>>}

InitLocals ==
    /\ error = "none"
    /\ stages = <<>>
    /\ categorical_cols = <<>>
    /\ continuous_cols = <<>>
    /\ categorical_dataset = <<>>
    /\ continuous_dataset = <<>>
    /\ col_labels = <<>>
    /\ cleansed_dataset = <<>>
    /\ mapped_dataset = <<>>
    /\ final_dataset = [bound |-> FALSE, data |-> <<>>]
    /\ data = <<>>
    /\ column_list = <<>>
    /\ column_combination = <<>>
    /\ corr_df = <<>>
    /\ corr_value = Unbound

MasterInit ==
    /\ pc = "mc_start"
    /\ \E t \in Thresholds, o \in MasterOverrides :
           cfg = [DefaultCfg EXCEPT !.categorical_threshold = t,
                                    !.define_continuous_cols = o[1],
                                    !.define_categorical_cols = o[2]]
    /\ dataset \in MasterDatasets
    /\ InitLocals

SpecCorrelation == MasterInit /\ [][MasterNext]_vars

---------------------------------------------------------------------------
(* The calls of preprocess. *)

LearningTypes == {"supervised", "Supervised", "unsupervised", "reinforcement"}

Encodings == {"label_encoding", "one_hot_encoding", "binary_encoding"}

\* a text column of two values, a numeric column of distinct values
SampleText ==
    [name |-> "a", level |-> 0, numeric |-> FALSE,
     vals |-> [i \in Rows |-> IF i = 1 THEN 1 ELSE 2]]

SampleNumber ==
    [name |-> "b", level |-> 0, numeric |-> TRUE, vals |-> [i \in Rows |-> i]]

SampleTarget ==
    [name |-> "y", level |-> 0, numeric |-> TRUE,
     vals |-> [i \in Rows |-> IF i = 1 THEN 1 ELSE 2]]

\* a target column has no missing value
TargetColumns == {c \in Columns("y") : NullCount(c) = 0}

\* every combination of the parameters, on the sample features and every
\* target column
ConfigurationSweep ==
    /\ cfg \in [learning_type : LearningTypes,
                target_variable : {None, "y"},
                target_type : {None, "categorical", "continuous"},
                tranform_categorical : Encodings,
                categorical_threshold : {DefaultCategoricalThreshold},
                remove_outliers : BOOLEAN,
                log_transform : {None, "yeojohnson"},
                drop_null_dominated : BOOLEAN,
                derive_from_datetime : BOOLEAN,
                feature_selection : BOOLEAN,
                define_continuous_cols : {<<>>},
                define_categorical_cols : {<<>>}]
    /\ dataset \in {<<SampleText, SampleNumber, y>> : y \in TargetColumns}

\* the override lists a call of preprocess is given
OverrideLists == {<<>>, <<"a">>}

\* every pair of feature columns and every choice of the override lists, in
\* both learning types, with and without the removal of outliers
DataSweep ==
    /\ \E lt \in {"supervised", "unsupervised"}, t \in Thresholds, ro \in BOOLEAN,
          dc \in OverrideLists, dg \in OverrideLists :
           cfg = [DefaultCfg EXCEPT
                     !.learning_type = lt,
                     !.target_variable = IF lt = "supervised" THEN "y" ELSE None,
                     !.target_type = IF lt = "supervised" THEN "categorical" ELSE None,
                     !.categorical_threshold = t,
                     !.remove_outliers = ro,
                     !.define_continuous_cols = dc,
                     !.define_categorical_cols = dg]
    /\ dataset \in {<<a, b, SampleTarget>> : a \in Columns("a"), b \in Columns("b")}

Init ==
    /\ pc = "validate"
    /\ ConfigurationSweep \/ DataSweep
    /\ InitLocals

Spec == Init /\ [][Next]_vars

---------------------------------------------------------------------------
(* The claims about preprocess, checked under Spec. *)

Terminated == pc \in {"returned", "raised"}

Ran(stage) == Contains(stages, stage)

\* C1, the case the claim singles out: a supervised run with feature
\* selection disabled (and no log transform) whose named columns are all in
\* the dataset ends by returning the merged dataset with the target attached.
C1_SupervisedWithoutSelectionReturns ==
    (/\ Supervised
     /\ ~cfg.feature_selection
     /\ cfg.log_transform = None
     /\ Terminated
     /\ error \notin {"ParameterError", "KeyError"})
        => /\ pc = "returned"
           /\ final_dataset = [bound |-> TRUE, data |-> mapped_dataset]

\* the configurations the claim C2 calls invalid
InvalidConfiguration ==
    \/ Lower(cfg.learning_type) \notin {"supervised", "unsupervised"}
    \/ Lower(cfg.tranform_categorical) \notin {"label_encoding", "one_hot_encoding"}
    \/ /\ Lower(cfg.learning_type) = "supervised"
       /\ cfg.target_variable = None \/ cfg.target_type = None

\* C2: a call with an invalid configuration runs no stage and returns
\* nothing: it is at the validation, which can only raise, or has raised
\* ParameterError, with the dataset untouched and no final dataset.
C2_InvalidConfigurationFailsFirst ==
    InvalidConfiguration =>
        /\ pc \in {"validate", "raised"}
        /\ pc = "validate" => ENABLED Validate
        /\ pc = "raised" => error = "ParameterError"
        /\ stages = <<>>
        /\ ~final_dataset.bound
        /\ categorical_cols = <<>> /\ continuous_cols = <<>>

\* a supervised call without target_type has raised ParameterError
C2_Witness ==
    /\ Lower(cfg.learning_type) = "supervised"
    /\ cfg.target_variable # None
    /\ cfg.target_type = None
    /\ Lower(cfg.tranform_categorical) = "label_encoding"
    /\ pc = "raised"
    /\ error = "ParameterError"

\* C3: once the columns are classified (and the two frames selected) no
\* column is in both role lists, and a column named in both override lists
\* is categorical only.
C3_AtMostOneRole ==
    (Ran("classify") /\ error = "none") =>
        /\ Range(categorical_cols) \cap Range(continuous_cols) = {}
        /\ \A n \in Range(cfg.define_categorical_cols)
                      \cap Range(cfg.define_continuous_cols) :
               Contains(categorical_cols, n) /\ ~Contains(continuous_cols, n)

\* C4: once the columns are classified, a column named in exactly one
\* override list has that list's role and not the other.
C4_PinnedColumnKeepsRole ==
    Ran("classify") =>
        /\ \A n \in Range(cfg.define_continuous_cols)
                      \ Range(cfg.define_categorical_cols) :
               Contains(continuous_cols, n) /\ ~Contains(categorical_cols, n)
        /\ \A n \in Range(cfg.define_categorical_cols)
                      \ Range(cfg.define_continuous_cols) :
               Contains(categorical_cols, n) /\ ~Contains(continuous_cols, n)

\* a column that the heuristic calls categorical, pinned continuous by the
\* caller alone, is continuous after the classification
C4_Witness ==
    /\ pc = "impute_categorical"
    /\ cfg.define_continuous_cols = <<"a">>
    /\ cfg.define_categorical_cols = <<>>
    /\ HasColumn(dataset, "a")
    /\ check_categorical_col(Column(dataset, "a"), cfg.categorical_threshold)
    /\ Contains(continuous_cols, "a")

\* the stages of the pipeline, in the order the specification fixes
StageOrder ==
    <<"reset_index", "derive_from_datetime", "drop_null_fields",
      "drop_single_valued_cols", "classify", "impute_categorical", "encode",
      "impute_continuous", "log_transform", "merge", "target",
      "remove_outliers", "feature_selection", "final_dataset">>

StageIndex(stage) == CHOOSE k \in DOMAIN StageOrder : StageOrder[k] = stage

\* C9: the stages executed so far are stages of the pipeline in strictly
\* increasing position (none out of order, none twice), and feature
\* selection has run only in supervised mode.
C9_StagesInFixedOrder ==
    /\ \A i \in DOMAIN stages : stages[i] \in Range(StageOrder)
    /\ \A i, j \in DOMAIN stages :
           i < j => StageIndex(stages[i]) < StageIndex(stages[j])
    /\ Ran("feature_selection") => Lower(cfg.learning_type) = "supervised"

\* a supervised run with every optional stage but the log transform has
\* returned
C9_Witness ==
    /\ pc = "returned"
    /\ Ran("derive_from_datetime")
    /\ Ran("drop_null_fields")
    /\ Ran("target")
    /\ Ran("remove_outliers")
    /\ Ran("feature_selection")
    /\ Ran("final_dataset")

\* C10: every column handed to the correlation step, by the feature
\* selection of preprocess or by master_correlation, has at least two
\* distinct values.
C10_NoConstantColumnCorrelated ==
    /\ Ran("feature_selection") =>
           \A c \in DOMAIN mapped_dataset :
               Cardinality(Distinct(mapped_dataset[c])) >= 2
    /\ pc \in {"mc_loop", "mc_returned"} =>
           \A c \in DOMAIN data : Cardinality(Distinct(data[c])) >= 2

---------------------------------------------------------------------------
(* The claims about master_correlation, checked under SpecCorrelation. *)

\* the role a column has once the caller's override lists are applied
PinnedRole(n) ==
    CASE Contains(cfg.define_categorical_cols, n) -> "categorical"
      [] Contains(cfg.define_continuous_cols, n) -> "continuous"
      [] Contains(categorical_cols, n) -> "categorical"
      [] Contains(continuous_cols, n) -> "continuous"
      [] OTHER -> "none"

\* the role master_correlation gave a column
RoleOf(n) ==
    CASE Contains(categorical_cols, n) /\ ~Contains(continuous_cols, n) -> "categorical"
      [] Contains(continuous_cols, n) /\ ~Contains(categorical_cols, n) -> "continuous"
      [] OTHER -> "none"

\* the statistic the documentation gives a pair of roles
StatisticOfRoles(r1, r2) ==
    CASE r1 = "continuous" /\ r2 = "continuous" -> "pearson_corr"
      [] r1 = "categorical" /\ r2 = "categorical" -> "cramersv_corr"
      [] {r1, r2} = {"categorical", "continuous"} -> "kendalltau_corr"
      [] OTHER -> "none"

AllPairs == Range(Combinations(column_list))

ProcessedPairs == AllPairs \ Range(column_combination)

\* C5: the statistic of every pair of the returned matrix is the one of the
\* pair's roles with the override lists applied.
C5_MasterCorrelationHonoursOverrides ==
    pc = "mc_returned" =>
        \A p \in AllPairs :
            corr_df[p].stat = StatisticOfRoles(PinnedRole(p[1]), PinnedRole(p[2]))

\* C6: the returned matrix is square over the retained columns, its diagonal
\* is 1 and it is symmetric.
C6_MatrixSquareSymmetric ==
    pc = "mc_returned" =>
        /\ column_list = Names(data)
        /\ DOMAIN corr_df = Range(column_list) \X Range(column_list)
        /\ \A n \in Range(column_list) : corr_df[<<n, n>>] = One
        /\ \A m, n \in Range(column_list) : corr_df[<<m, n>>] = corr_df[<<n, m>>]

\* a matrix of three columns, its cells off the diagonal all written, has
\* been returned
C6_Witness ==
    /\ pc = "mc_returned"
    /\ Len(column_list) = 3
    /\ \A p \in AllPairs : corr_df[p].stat \notin {"1", "NaN"}

\* C7: every column of the matrix has exactly one role; the cell of every
\* pair processed so far holds the statistic of that pair's roles, computed
\* from that pair; the loop never fails to find a branch; and the returned
\* matrix has each of its pairs processed, so no empty cell.
C7_EachPairOwnStatistic ==
    pc \in {"mc_loop", "mc_returned", "raised"} =>
        /\ pc # "raised"
        /\ \A n \in Range(column_list) : RoleOf(n) # "none"
        /\ \A p \in ProcessedPairs :
               /\ StatisticOfRoles(RoleOf(p[1]), RoleOf(p[2])) # "none"
               /\ corr_df[p] =
                      Cell(StatisticOfRoles(RoleOf(p[1]), RoleOf(p[2])), p[1], p[2])
        /\ pc = "mc_returned" =>
               /\ ProcessedPairs = AllPairs
               /\ \A rc \in DOMAIN corr_df : corr_df[rc] # NaN

\* a matrix with a Cramer's V cell and, processed after it, a Kendall's Tau
\* cell has been returned
C7_Witness ==
    /\ pc = "mc_returned"
    /\ \E i, j \in DOMAIN Combinations(column_list) :
           /\ i < j
           /\ corr_df[Combinations(column_list)[i]].stat = "cramersv_corr"
           /\ corr_df[Combinations(column_list)[j]].stat = "kendalltau_corr"

\* a column with no role: neither categorical nor numeric
NoRole(col) ==
    /\ ~check_categorical_col(col, cfg.categorical_threshold)
    /\ ~check_numeric_col(col)

InvalidInput ==
    \/ Len(dataset) < 2
    \/ \E c \in DOMAIN dataset : NoRole(dataset[c])

=============================================================================
